---- MODULE Spec2Model ----
(***************************************************************************)
(* Model of the query pipeline of ioio-advisor.  One query is followed     *)
(* through one of the four pipelines of the repository:                    *)
(*   - AgentCoordinator.process_query, called with a UserQuery             *)
(*     (src/src/application/agent_coordinator.py, src/src/domain/models.py)*)
(*   - POST /query of the API, which calls the coordinator                 *)
(*     (src/src/infrastructure/api/main.py)                                *)
(*   - process_query of the script src/run_agents.py                       *)
(*   - POST /query of src/run_server.py                                    *)
(*                                                                         *)
(* The five agents are external collaborators: each invocation either      *)
(* returns one of a small set of values or raises one of a small set of    *)
(* exceptions.  The compiled workflow of the coordinator runs its nodes    *)
(* along the edges, each node receiving the state its predecessor          *)
(* returned; an exception raised in a node leaves ainvoke.                 *)
(*                                                                         *)
(* Spec follows one query, LiveSpec adds fairness to it, ConcSpec follows  *)
(* two invocations of the coordinator in flight at the same time, and      *)
(* AgentSpec follows one call of process of an agent of src/src/agents.    *)
(* DesignerSpec and RetrieverSpec follow the caches of the designer and of *)
(* the retriever over several calls while time passes, and StorageSpec     *)
(* follows the calls of save_image on one storage directory.               *)
(***************************************************************************)
EXTENDS Integers, Sequences, FiniteSets, TLC

(***************************************************************************)
(* Bounds                                                                  *)
(***************************************************************************)
MaxQueryLen == 2
MaxClock == 1

(***************************************************************************)
(* Python values.  Every value that can sit in a dict, be returned by an   *)
(* agent or be stored in the state is tagged: None, a str or a dict.       *)
(***************************************************************************)
Null == [t |-> "null"]
Str(s) == [t |-> "str", s |-> s]
Map(m) == [t |-> "map", m |-> m]
EmptyMap == [k \in {} |-> Null]

IsDict(v) == v.t = "map"
IsStr(v) == v.t = "str"

\* Python truth value of None, str and dict
Truthy(v) ==
  CASE v.t = "null" -> FALSE
    [] v.t = "str" -> v.s # ""
    [] v.t = "map" -> DOMAIN v.m # {}

\* dict.update(r): keys of r are added, same-named keys are overwritten
DictUpdate(m, r) ==
  [k \in DOMAIN m \cup DOMAIN r |-> IF k \in DOMAIN r THEN r[k] ELSE m[k]]

\* the last element of a list
Last(s) == s[Len(s)]

(***************************************************************************)
(* Query texts are sequences of characters, so that str.strip() is         *)
(* computed and not assumed.                                               *)
(***************************************************************************)
Chars == {" ", "q"}
QueryTexts == UNION {[1..n -> Chars] : n \in 0..MaxQueryLen}

RECURSIVE LStrip(_)
LStrip(s) == IF s # <<>> /\ Head(s) = " " THEN LStrip(Tail(s)) ELSE s

RECURSIVE RStrip(_)
RStrip(s) ==
  IF s # <<>> /\ s[Len(s)] = " " THEN RStrip(SubSeq(s, 1, Len(s) - 1)) ELSE s

\* str.strip()
Strip(s) == RStrip(LStrip(s))

\* the str made of the characters of s
RECURSIVE Join(_)
Join(s) == IF s = <<>> THEN "" ELSE Head(s) \o Join(Tail(s))

\* datetime.isoformat()
IsoFormat(t) == "T" \o ToString(t)

\* str(hash(...)) of a formatted string
HashStr(s) == "h(" \o s \o ")"

(***************************************************************************)
(* What the agents may do                                                  *)
(***************************************************************************)
Stages == <<"intent", "retrieve", "reason", "write", "visualize">>
StageNames == {Stages[i] : i \in 1..Len(Stages)}

\* An exception has a type and a message; the text of a message is kept as
\* the sequence of the pieces it is put together from.
StageErrors ==
  { [type |-> "RuntimeError", msg |-> <<"boom">>],
    [type |-> "ValueError", msg |-> <<"bad value">>] }

IntentResults ==
  { Map([intent |-> Str("currency")]),
    Map([error |-> Str("no intent")]) }

RetrieveResults ==
  { Map([information |-> Str("market data")]),
    Map([information |-> Str("market data"), analysis |-> Str("preliminary")]),
    Map([information |-> Str("market data"), query_id |-> Str("stage-id")]),
    Null }

ReasonResults ==
  { Map([analysis |-> Str("stable")]),
    Map([error |-> Str("no analysis")]) }

WriteResults ==
  { Map([response |-> Str("answer")]),
    Map([response |-> Str("")]),
    Map([response |-> Null]),
    Map([error |-> Str("no response")]) }

DesignResults ==
  { Map([visualization |->
          Map([visualization_url |-> Null, image_url |-> Str("/images/a.png")])]),
    Map([visualization |-> Null, error |-> Str("generation failed")]),
    Map([visualization_url |-> Str("chart.png")]),
    Map(EmptyMap),
    Null }

\* the context mappings a caller may supply (None or a dict)
CallerContexts ==
  { Null,
    Map(EmptyMap),
    Map([user_location |-> Str("Chile")]),
    Map([query_id |-> Str("caller-id")]) }

(***************************************************************************)
(* State                                                                   *)
(***************************************************************************)
VARIABLES
  entry,      \* how the pipeline is entered: "direct" (AgentCoordinator.process_query),
              \* "api" (POST /query of main.py), "script" (process_query of
              \* run_agents.py) or "server" (POST /query of run_server.py)
  reqText,    \* the query text the caller supplied
  reqCtx,     \* the context the caller supplied
  pc,         \* position of the control flow
  clock,      \* the wall clock
  heap,       \* the dict objects: "query" is UserQuery.context, "local" a fresh dict
  query,      \* the UserQuery
  state,      \* the state dict that flows through the graph
  inflight,   \* the stage whose process is being awaited, or "none"
  calls,      \* the stage invocations so far, with the input each was given
  returns,    \* the values the stages returned so far
  writes,     \* the assignments to result slots of the state so far
  raisedBy,   \* the stage whose process raised, or "none"
  result,     \* what process_query delivered to its caller
  http,       \* what POST /query answered
  pipeline_data,  \* run_agents.py: the dict the outputs are merged into;
                  \* run_server.py: input_data
  outputs,    \* run_server.py: the output of each agent
  tasks,      \* two process_query invocations in flight at the same time:
              \* position, UserQuery, state dict and result of each
  objs,       \* the dict objects these two invocations work on
  agentKind,  \* a process operation of one of the agents of src/agents is followed:
              \* the agent it belongs to,
  agentInput, \* the input_data it was given,
  agentPc,    \* its position,
  failure,    \* the exception its processing ran into, if any,
  outcome,    \* and what it delivered to its caller
  now,        \* the time of day of the services below, in minutes
  visualization_cache,  \* StableDiffusionDesignerAgent._visualization_cache
  cache_timestamps,     \* StableDiffusionDesignerAgent._cache_timestamps
  designerCall,  \* the process call of the designer that is followed
  data_cache,    \* InstructorXLRetrieverAgent._data_cache
  last_update,   \* InstructorXLRetrieverAgent._last_update
  fetches,       \* the fetch_with_cache calls that are followed, by cache key
  files,         \* the files of the storage directory, by name
  saved          \* the last save_image call: its arguments and what it delivered

concVars == <<tasks, objs>>
agentVars == <<agentKind, agentInput, agentPc, failure, outcome>>
designerVars == <<visualization_cache, cache_timestamps, designerCall>>
retrieverVars == <<data_cache, last_update, fetches>>
storageVars == <<files, saved>>
serviceVars == <<now, designerVars, retrieverVars, storageVars>>

vars == <<entry, reqText, reqCtx, pc, clock, heap, query, state, inflight,
          calls, returns, writes, raisedBy, result, http, pipeline_data, outputs,
          concVars, agentVars, serviceVars>>

\* what the steps of a pipeline leave alone: the request, and the variables
\* of the other specifications
inputVars == <<entry, reqText, reqCtx, concVars, agentVars, serviceVars>>
scriptVars == <<pipeline_data, outputs>>

NoQuery == [query_text |-> <<>>, timestamp |-> -1, context |-> "none"]
NoState == [query |-> Null, context |-> "none", intent |-> Null,
            analysis |-> Null, response |-> Null, visualization |-> Null]
NoResult == [kind |-> "none"]
NoHttp == [status |-> 0]

NoOutputs == [s \in StageNames |-> Null]

\* the two concurrent invocations
TaskIds == {1, 2}
NoTask == [pc |-> "start", query |-> NoQuery, state |-> NoState,
           query_id |-> Null, inflight |-> "none", calls |-> <<>>,
           returns |-> <<>>, result |-> NoResult]

\* no concurrent invocations are followed
ConcIdle ==
  /\ tasks = [p \in TaskIds |-> NoTask]
  /\ objs = EmptyMap

\* nothing has failed
NoFailure == [type |-> "none", msg |-> <<>>]

\* no agent is followed
AgentIdle ==
  /\ agentKind = "none"
  /\ agentInput = Null
  /\ agentPc = "start"
  /\ failure = NoFailure
  /\ outcome = NoResult

\* no call of the designer is followed
NoCall == [pc |-> "idle"]

\* no cache and no storage directory is followed
ServicesIdle ==
  /\ now = 0
  /\ visualization_cache = EmptyMap
  /\ cache_timestamps = EmptyMap
  /\ designerCall = NoCall
  /\ data_cache = EmptyMap
  /\ last_update = EmptyMap
  /\ fetches = EmptyMap
  /\ files = EmptyMap
  /\ saved = NoResult

Init ==
  /\ entry \in {"direct", "api", "script", "server"}
  /\ reqText \in QueryTexts
  /\ reqCtx \in IF entry = "script" THEN {Null} ELSE CallerContexts
  /\ pipeline_data = EmptyMap
  /\ outputs = NoOutputs
  /\ pc = "start"
  /\ clock = 0
  /\ heap = [r \in {"query", "local"} |-> EmptyMap]
  /\ query = NoQuery
  /\ state = NoState
  /\ inflight = "none"
  /\ calls = <<>>
  /\ returns = <<>>
  /\ writes = <<>>
  /\ raisedBy = "none"
  /\ result = NoResult
  /\ http = NoHttp
  /\ ConcIdle
  /\ AgentIdle
  /\ ServicesIdle

\* datetime.now(UTC): the clock does not go backwards
NowFrom(c) == {t \in c..(c + 1) : t <= MaxClock}
Now == NowFrom(clock)

(***************************************************************************)
(* UserQuery.create                                                        *)
(***************************************************************************)
\* context or {}: the caller's dict itself when it is non-empty
UserQueryCreate(query_text, context, t) ==
  [q |-> [query_text |-> query_text, timestamp |-> t, context |-> "query"],
   ctx |-> IF Truthy(context) THEN context.m ELSE EmptyMap]

\* a caller builds the UserQuery it hands to the coordinator
CreateUserQuery ==
  /\ entry = "direct"
  /\ pc = "start"
  /\ \E t \in Now :
       LET c == UserQueryCreate(reqText, reqCtx, t) IN
         /\ query' = c.q
         /\ heap' = [heap EXCEPT !["query"] = c.ctx]
         /\ clock' = t
  /\ pc' = "call_coordinator"
  /\ UNCHANGED <<inputVars, scriptVars, state, inflight, calls, returns, writes,
                 raisedBy, result, http>>

(***************************************************************************)
(* AgentCoordinator                                                        *)
(***************************************************************************)
\* the workflow with the edges of retrieve_info and analyze_info exchanged
EdgesSwapped ==
  [process_intent |-> "analyze_info",
   analyze_info |-> "retrieve_info",
   retrieve_info |-> "compose_response",
   compose_response |-> "generate_visual",
   generate_visual |-> "finalize"]

\* _build_graph: the entry point and the edges of the workflow
EntryPoint == "process_intent"
Edges ==
  [process_intent |-> "retrieve_info",
   retrieve_info |-> "analyze_info",
   analyze_info |-> "compose_response",
   compose_response |-> "generate_visual",
   generate_visual |-> "finalize"]

\* the agent each node awaits
NodeStage ==
  [process_intent |-> "intent",
   retrieve_info |-> "retrieve",
   analyze_info |-> "reason",
   compose_response |-> "write",
   generate_visual |-> "visualize"]

\* outcome of a piece of coordinator code: it went through or it raised
Ok(st, hp, assigned) == [ok |-> TRUE, state |-> st, heap |-> hp, assigned |-> assigned]
Fail(type, msg) == [ok |-> FALSE, exc |-> [type |-> type, msg |-> <<msg>>]]

\* the keys the caller's context already has are kept
ProcessQueryInitKeep(hp, q, t, fresh, ident) ==
  LET context == IF hp[q.context] # EmptyMap THEN q.context ELSE fresh
      timestamp == IsoFormat(t)
      query_text == Join(q.query_text)
      query_id == HashStr(query_text \o "_" \o timestamp \o "_" \o ident)
  IN [heap |-> [hp EXCEPT ![context] =
                  DictUpdate([query_id |-> Str(query_id),
                              timestamp |-> Str(timestamp),
                              original_query |-> Str(query_text)], @)],
      state |-> [query |-> Str(query_text), context |-> context,
                 intent |-> Null, analysis |-> Null, response |-> Null,
                 visualization |-> Null]]

\* process_query up to the initial state: the context that is updated is
\* query.context itself unless that dict is empty, in which case it is the
\* new dict fresh; ident stands for id(query)
ProcessQueryInitAt(hp, q, t, fresh, ident) ==
  LET context == IF hp[q.context] # EmptyMap THEN q.context ELSE fresh
      timestamp == IsoFormat(t)
      query_text == Join(q.query_text)
      query_id == HashStr(query_text \o "_" \o timestamp \o "_" \o ident)
  IN [heap |-> [hp EXCEPT ![context] =
                  DictUpdate(@, [query_id |-> Str(query_id),
                                 timestamp |-> Str(timestamp),
                                 original_query |-> Str(query_text)])],
      state |-> [query |-> Str(query_text), context |-> context,
                 intent |-> Null, analysis |-> Null, response |-> Null,
                 visualization |-> Null]]

ProcessQueryInit(hp, q, t) == ProcessQueryInitAt(hp, q, t, "local", "id")

\* the input each node builds for its agent
ProcessIntentInput(st, hp) ==
  [query |-> st.query, context |-> Map(hp[st.context])]
RetrieveInfoInput(st, hp) ==
  [query |-> st.query, context |-> Map(hp[st.context]), intent |-> st.intent]
\* the reason agent is given a context without what was retrieved
AnalyzeInfoInputBare(st, hp) ==
  [query |-> st.query, context |-> Map(EmptyMap), intent |-> st.intent]

AnalyzeInfoInput(st, hp) ==
  [query |-> st.query, context |-> Map(hp[st.context]), intent |-> st.intent]
ComposeResponseInput(st, hp) ==
  [query |-> st.query, context |-> Map(hp[st.context]), analysis |-> st.analysis]
GenerateVisualInput(st, hp) ==
  [context |-> Map(hp[st.context]), response |-> st.response]

NodeInput(node, st, hp) ==
  CASE node = "process_intent" -> ProcessIntentInput(st, hp)
    [] node = "retrieve_info" -> RetrieveInfoInput(st, hp)
    [] node = "analyze_info" -> AnalyzeInfoInput(st, hp)
    [] node = "compose_response" -> ComposeResponseInput(st, hp)
    [] node = "generate_visual" -> GenerateVisualInput(st, hp)

\* what each node does with the value its agent returned
\* the result slots of the state, in pipeline order
Slots == <<"intent", "analysis", "response", "visualization">>

ProcessIntentMerge(st, hp, r) ==
  Ok([st EXCEPT !.intent = r], hp, <<"intent">>)

\* the retrieved mapping replaces the context instead of being merged into it
RetrieveInfoMergeReplace(st, hp, r) ==
  IF ~IsDict(r)
  THEN Fail("TypeError", "object is not iterable")
  ELSE Ok(st, [hp EXCEPT ![st.context] = r.m], <<>>)

\* the retrieved mapping is merged into the state dict instead of the context
RetrieveInfoMergeIntoState(st, hp, r) ==
  IF ~IsDict(r)
  THEN Fail("TypeError", "object is not iterable")
  ELSE LET hit == DOMAIN r.m \cap {"intent", "analysis", "response", "visualization"}
       IN Ok([k \in DOMAIN st |-> IF k \in hit THEN r.m[k] ELSE st[k]], hp,
             SelectSeq(Slots, LAMBDA k : k \in hit))

RetrieveInfoMerge(st, hp, r) ==
  IF ~IsDict(r)
  THEN Fail("TypeError", "object is not iterable")
  ELSE Ok(st, [hp EXCEPT ![st.context] = DictUpdate(@, r.m)], <<>>)

AnalyzeInfoMerge(st, hp, r) ==
  Ok([st EXCEPT !.analysis = r], hp, <<"analysis">>)

ComposeResponseMerge(st, hp, r) ==
  IF ~IsDict(r)
  THEN Fail("TypeError", "object is not subscriptable")
  ELSE IF "response" \notin DOMAIN r.m
  THEN Fail("KeyError", "'response'")
  ELSE Ok([st EXCEPT !.response = r.m.response], hp, <<"response">>)

\* the mapping the designer returned is stored as it came
GenerateVisualMergeWhole(st, hp, r) ==
  Ok([st EXCEPT !.visualization = r], hp, <<"visualization">>)

GenerateVisualMerge(st, hp, r) ==
  IF IsDict(r) /\ "visualization" \in DOMAIN r.m
  THEN Ok([st EXCEPT !.visualization = r.m.visualization], hp, <<"visualization">>)
  ELSE Ok([st EXCEPT !.visualization = r], hp, <<"visualization">>)

\* what a node does with the value its agent returned
NodeMerge(node, st, hp, r) ==
  CASE node = "process_intent" -> ProcessIntentMerge(st, hp, r)
    [] node = "retrieve_info" -> RetrieveInfoMerge(st, hp, r)
    [] node = "analyze_info" -> AnalyzeInfoMerge(st, hp, r)
    [] node = "compose_response" -> ComposeResponseMerge(st, hp, r)
    [] node = "generate_visual" -> GenerateVisualMerge(st, hp, r)

\* the visualization data is handed to the Response model as it is given
ResponseCreateAsGiven(content, visualization_data, query_id, t) ==
  LET vis_data == visualization_data
      qid == IF Truthy(query_id) THEN query_id
             ELSE Str(HashStr(IF IsStr(content) THEN content.s ELSE "None"))
  IN IF IsStr(content) /\ IsDict(vis_data) /\ IsStr(qid)
     THEN [ok |-> TRUE,
           response |-> [text |-> content.s, visualization |-> vis_data.m,
                         query_id |-> qid.s, created_at |-> t]]
     ELSE Fail("ValidationError", "validation error for Response")

\* Response.create, with the validation of the Response model
ResponseCreate(content, visualization_data, query_id, t) ==
  LET vis_data == IF Truthy(visualization_data) THEN visualization_data
                  ELSE Map(EmptyMap)
      qid == IF Truthy(query_id) THEN query_id
             ELSE Str(HashStr(IF IsStr(content) THEN content.s ELSE "None"))
  IN IF IsStr(content) /\ IsDict(vis_data) /\ IsStr(qid)
     THEN [ok |-> TRUE,
           response |-> [text |-> content.s, visualization |-> vis_data.m,
                         query_id |-> qid.s, created_at |-> t]]
     ELSE Fail("ValidationError", "validation error for Response")

\* the time of construction is put into the text
BuildResponseStamped(st, hp, t) ==
  LET vis_data == st.visualization
      content == IF IsStr(st.response) THEN Str(st.response.s \o " " \o IsoFormat(t))
                 ELSE st.response
  IN ResponseCreate(content, vis_data, hp[st.context]["query_id"], t)

\* process_query after the graph has run
BuildResponse(st, hp, t) ==
  LET vis_data == st.visualization IN
    ResponseCreate(st.response, vis_data, hp[st.context]["query_id"], t)

Raised(e) == [kind |-> "raised", exc |-> e]
Returned(r) == [kind |-> "response", response |-> r]

\* process_query is entered: the context is set up and the graph is started
ProcessQueryEnter ==
  /\ pc = "call_coordinator"
  /\ \E t \in Now :
       LET i == ProcessQueryInit(heap, query, t) IN
         /\ heap' = i.heap
         /\ state' = i.state
         /\ clock' = t
  /\ pc' = EntryPoint
  /\ UNCHANGED <<inputVars, scriptVars, query, inflight, calls, returns, writes,
                 raisedBy, result, http>>

\* a node builds the input of its agent and awaits the agent's process
InvokeStage(node) ==
  /\ pc = node
  /\ inflight = "none"
  /\ inflight' = NodeStage[node]
  /\ calls' = Append(calls, [stage |-> NodeStage[node],
                             input |-> NodeInput(node, state, heap)])
  /\ UNCHANGED <<inputVars, scriptVars, pc, clock, heap, query, state,
                 returns, writes, raisedBy, result, http>>

\* the rest of a node, once its agent has returned: merge, then follow the edge
Merged(node, r, m) ==
  /\ inflight' = "none"
  /\ returns' = Append(returns, [stage |-> inflight, value |-> r])
  /\ IF m.ok
     THEN /\ state' = m.state
          /\ heap' = m.heap
          /\ writes' = writes \o [i \in 1..Len(m.assigned) |->
                                    [slot |-> m.assigned[i], by |-> inflight]]
          /\ pc' = Edges[node]
          /\ result' = result
     ELSE /\ result' = Raised(m.exc)
          /\ pc' = "coordinator_done"
          /\ UNCHANGED <<state, heap, writes>>
  /\ UNCHANGED <<inputVars, scriptVars, clock, query, calls, raisedBy, http>>

process_intent ==
  /\ pc = "process_intent" /\ inflight = "intent"
  /\ \E r \in IntentResults : Merged("process_intent", r, ProcessIntentMerge(state, heap, r))

retrieve_info ==
  /\ pc = "retrieve_info" /\ inflight = "retrieve"
  /\ \E r \in RetrieveResults : Merged("retrieve_info", r, RetrieveInfoMerge(state, heap, r))

analyze_info ==
  /\ pc = "analyze_info" /\ inflight = "reason"
  /\ \E r \in ReasonResults : Merged("analyze_info", r, AnalyzeInfoMerge(state, heap, r))

compose_response ==
  /\ pc = "compose_response" /\ inflight = "write"
  /\ \E r \in WriteResults : Merged("compose_response", r, ComposeResponseMerge(state, heap, r))

generate_visual ==
  /\ pc = "generate_visual" /\ inflight = "visualize"
  /\ \E r \in DesignResults : Merged("generate_visual", r, GenerateVisualMerge(state, heap, r))

\* the exception of the awaited agent is swallowed and the edge is followed
StageRaisesAbsorbed ==
  /\ inflight # "none"
  /\ pc \in DOMAIN NodeStage
  /\ raisedBy' = inflight
  /\ inflight' = "none"
  /\ pc' = Edges[pc]
  /\ UNCHANGED <<inputVars, scriptVars, clock, heap, query, state, calls, returns,
                 writes, result, http>>

\* the awaited agent raises: the exception leaves the node, the graph and,
\* through the except clause that re-raises it, process_query
StageRaises ==
  /\ inflight # "none"
  /\ pc \in DOMAIN NodeStage
  /\ \E e \in StageErrors : result' = Raised(e)
  /\ raisedBy' = inflight
  /\ inflight' = "none"
  /\ pc' = "coordinator_done"
  /\ UNCHANGED <<inputVars, scriptVars, clock, heap, query, state, calls, returns,
                 writes, http>>

\* the graph ends but process_query neither returns nor raises
finalizeSilent ==
  /\ pc = "finalize"
  /\ pc' = "coordinator_done"
  /\ UNCHANGED <<inputVars, scriptVars, clock, heap, query, state, inflight, calls,
                 returns, writes, raisedBy, result, http>>

\* _finalize returns the state as it is, which ends the graph; process_query
\* then builds the Response from the final state
finalize ==
  /\ pc = "finalize"
  /\ \E t \in Now :
       LET b == BuildResponse(state, heap, t) IN
         /\ result' = IF b.ok THEN Returned(b.response) ELSE Raised(b.exc)
         /\ clock' = t
  /\ pc' = "coordinator_done"
  /\ UNCHANGED <<inputVars, scriptVars, heap, query, state, inflight, calls, returns,
                 writes, raisedBy, http>>

(***************************************************************************)
(* POST /query of the API (infrastructure/api/main.py)                     *)
(***************************************************************************)
\* QueryRequest.clean_query
CleanQuery(q) ==
  IF q = <<>> \/ Strip(q) = <<>>
  THEN Fail("ValueError", "Query cannot be empty")
  ELSE [ok |-> TRUE, text |-> Strip(q)]

\* the except clauses of the handler: ValueError and its subclasses (the
\* validation error of the models is one) give 400, anything else 500
IsValueError(type) == type \in {"ValueError", "ValidationError"}
HttpError(e) ==
  IF IsValueError(e.type)
  THEN [status |-> 400, detail |-> e.msg]
  ELSE [status |-> 500, detail |-> <<"Error processing query: ">> \o e.msg]

\* dict.get(key, default)
DictGet(m, key, default) == IF key \in DOMAIN m THEN m[key] ELSE default

\* QueryResponse(...), with the validation of its Optional[str] fields
QueryResponseCreate(response, t) ==
  LET visualization == response.visualization
      visualization_url == DictGet(visualization, "visualization_url", Str(""))
      image_url == DictGet(visualization, "image_url", Str(""))
  IN IF visualization_url.t \in {"str", "null"} /\ image_url.t \in {"str", "null"}
     THEN [ok |-> TRUE,
           body |-> [text |-> response.text,
                     visualization_url |-> visualization_url,
                     image_url |-> image_url,
                     created_at |-> t]]
     ELSE Fail("ValidationError", "validation error for QueryResponse")

\* the handler up to the call of the coordinator: the context gets its
\* timestamp, then the query is cleaned and the UserQuery is created
ApiReceive ==
  /\ entry = "api"
  /\ pc = "start"
  /\ \E t \in Now :
       LET context == DictUpdate(IF Truthy(reqCtx) THEN reqCtx.m ELSE EmptyMap,
                                 [timestamp |-> Str(IsoFormat(t))])
           clean == CleanQuery(reqText)
       IN IF clean.ok
          THEN \E t2 \in NowFrom(t) :
                 LET c == UserQueryCreate(clean.text, Map(context), t2) IN
                   /\ query' = c.q
                   /\ heap' = [heap EXCEPT !["query"] = c.ctx]
                   /\ pc' = "call_coordinator"
                   /\ http' = http
                   /\ clock' = t2
          ELSE /\ http' = HttpError(clean.exc)
               /\ pc' = "api_done"
               /\ clock' = t
               /\ UNCHANGED <<query, heap>>
  /\ UNCHANGED <<inputVars, scriptVars, state, inflight, calls, returns, writes,
                 raisedBy, result>>

\* the coordinator returned a Response: the handler answers with a QueryResponse
ApiRespond ==
  /\ entry = "api"
  /\ pc = "coordinator_done"
  /\ result.kind = "response"
  /\ \E t \in Now :
       LET r == QueryResponseCreate(result.response, t) IN
         /\ http' = IF r.ok THEN [status |-> 200, body |-> r.body]
                    ELSE HttpError(r.exc)
         /\ clock' = t
  /\ pc' = "api_done"
  /\ UNCHANGED <<inputVars, scriptVars, heap, query, state, inflight, calls, returns,
                 writes, raisedBy, result>>

\* the coordinator raised: the handler turns the exception into an HTTP error
ApiError ==
  /\ entry = "api"
  /\ pc = "coordinator_done"
  /\ result.kind = "raised"
  /\ http' = HttpError(result.exc)
  /\ pc' = "api_done"
  /\ UNCHANGED <<inputVars, scriptVars, clock, heap, query, state, inflight,
                 calls, returns, writes, raisedBy, result>>

(***************************************************************************)
(* process_query of run_agents.py                                          *)
(***************************************************************************)
\* the order of the try blocks, and the name each agent goes by
ScriptOrder == <<"intent", "retrieve", "reason", "write", "visualize">>
ScriptAgent ==
  [intent |-> "intention", retrieve |-> "retriever", reason |-> "reason",
   write |-> "writer", visualize |-> "designer"]

StageResults(stage) ==
  CASE stage = "intent" -> IntentResults
    [] stage = "retrieve" -> RetrieveResults
    [] stage = "reason" -> ReasonResults
    [] stage = "write" -> WriteResults
    [] stage = "visualize" -> DesignResults

\* handle_agent_error(agent, message): the error mapping the caller gets
HandleAgentError(agent, message) ==
  Map([error |-> Str("Error in " \o agent \o " agent"),
       agent |-> Str(agent),
       details |-> Str(Join(message))])

\* the context and the pipeline data the script starts from
ScriptInit(q, user_level, t) ==
  [query |-> Str(q),
   context |-> Map([query_id |-> Str(HashStr(q)),
                    timestamp |-> Str(IsoFormat(t)),
                    user_level |-> Str(user_level),
                    language |-> Str("es"),
                    user_profile |-> Map([experience |-> Str(user_level)])])]

\* pipeline_data.update(output)
ScriptMerge(data, r) ==
  IF ~IsDict(r)
  THEN Fail("TypeError", "object is not iterable")
  ELSE [ok |-> TRUE, data |-> DictUpdate(data, r.m)]

ScriptPos(i) == IF i > Len(ScriptOrder) THEN "script_done" ELSE "script_" \o ScriptOrder[i]

ScriptStart ==
  /\ entry = "script"
  /\ pc = "start"
  /\ \E t \in Now :
       /\ pipeline_data' = ScriptInit(Join(reqText), "beginner", t)
       /\ clock' = t
  /\ pc' = ScriptPos(1)
  /\ UNCHANGED <<inputVars, outputs, heap, query, state, inflight, calls,
                 returns, writes, raisedBy, result, http>>

\* agents[...].process(pipeline_data) is awaited
ScriptInvoke(i) ==
  /\ entry = "script"
  /\ pc = ScriptPos(i)
  /\ inflight = "none"
  /\ inflight' = ScriptOrder[i]
  /\ calls' = Append(calls, [stage |-> ScriptOrder[i], input |-> pipeline_data])
  /\ UNCHANGED <<inputVars, scriptVars, pc, clock, heap, query, state,
                 returns, writes, raisedBy, result, http>>

\* an except clause that runs the failed try block once more
ScriptExceptRetry(i, e) ==
  /\ result' = result
  /\ pc' = ScriptPos(i)

\* what the except clause of try block i does with an exception
ScriptExcept(i, e) ==
  IF ScriptOrder[i] = "visualize"
  THEN /\ result' = [kind |-> "dict", value |-> Map(pipeline_data)]
       /\ pc' = "script_done"
  ELSE /\ result' = [kind |-> "dict",
                     value |-> HandleAgentError(ScriptAgent[ScriptOrder[i]], e.msg)]
       /\ pc' = "script_done"

\* the agent returned: its output is merged; after the last one the
\* pipeline data is returned
ScriptReturn(i) ==
  /\ entry = "script"
  /\ pc = ScriptPos(i)
  /\ inflight = ScriptOrder[i]
  /\ \E r \in StageResults(ScriptOrder[i]) :
       LET m == ScriptMerge(pipeline_data, r) IN
         /\ returns' = Append(returns, [stage |-> inflight, value |-> r])
         /\ IF m.ok
            THEN /\ pipeline_data' = m.data
                 /\ pc' = ScriptPos(i + 1)
                 /\ result' = IF i = Len(ScriptOrder)
                              THEN [kind |-> "dict", value |-> Map(m.data)]
                              ELSE result
            ELSE /\ ScriptExcept(i, m.exc)
                 /\ pipeline_data' = pipeline_data
  /\ inflight' = "none"
  /\ UNCHANGED <<inputVars, outputs, clock, heap, query, state, calls,
                 writes, raisedBy, http>>

\* the agent raised
ScriptRaise(i) ==
  /\ entry = "script"
  /\ pc = ScriptPos(i)
  /\ inflight = ScriptOrder[i]
  /\ \E e \in StageErrors : ScriptExcept(i, e)
  /\ raisedBy' = inflight
  /\ inflight' = "none"
  /\ UNCHANGED <<inputVars, scriptVars, clock, heap, query, state, calls,
                 returns, writes, http>>

(***************************************************************************)
(* POST /query of run_server.py                                            *)
(***************************************************************************)
\* {**a, **b}: a TypeError unless both are mappings
Spread(a, b) ==
  IF IsDict(a) /\ IsDict(b)
  THEN [ok |-> TRUE, value |-> Map(DictUpdate(a.m, b.m))]
  ELSE Fail("TypeError", "object is not a mapping")

\* the input of each step
ServerInput(stage, input_data, out) ==
  CASE stage = "intent" -> [ok |-> TRUE, value |-> Map(input_data)]
    [] stage = "retrieve" -> [ok |-> TRUE, value |-> Map(input_data)]
    [] stage = "reason" ->
         LET a == Spread(Map(input_data), out["intent"]) IN
           IF a.ok THEN Spread(a.value, out["retrieve"]) ELSE a
    [] stage = "write" -> Spread(Map(input_data), out["reason"])
    [] stage = "visualize" -> Spread(Map(input_data), out["write"])

ServerPos(i) == IF i > Len(Stages) THEN "server_respond" ELSE "server_" \o Stages[i]

\* except Exception: every failure is answered with 500
ServerError(e) == [status |-> 500, detail |-> e.msg]

ServerStart ==
  /\ entry = "server"
  /\ pc = "start"
  /\ pipeline_data' = [query |-> Str(Join(reqText)),
                       context |-> IF Truthy(reqCtx) THEN reqCtx ELSE Map(EmptyMap)]
  /\ pc' = ServerPos(1)
  /\ UNCHANGED <<inputVars, outputs, clock, heap, query, state, inflight, calls,
                 returns, writes, raisedBy, result, http>>

\* a step builds its input and awaits the agent
ServerInvoke(i) ==
  /\ entry = "server"
  /\ pc = ServerPos(i)
  /\ inflight = "none"
  /\ LET in == ServerInput(Stages[i], pipeline_data, outputs) IN
       IF in.ok
       THEN /\ inflight' = Stages[i]
            /\ calls' = Append(calls, [stage |-> Stages[i], input |-> in.value.m])
            /\ UNCHANGED <<pc, http>>
       ELSE /\ http' = ServerError(in.exc)
            /\ pc' = "server_done"
            /\ UNCHANGED <<inflight, calls>>
  /\ UNCHANGED <<inputVars, scriptVars, clock, heap, query, state, returns,
                 writes, raisedBy, result>>

ServerReturn(i) ==
  /\ entry = "server"
  /\ pc = ServerPos(i)
  /\ inflight = Stages[i]
  /\ \E r \in StageResults(Stages[i]) :
       /\ outputs' = [outputs EXCEPT ![Stages[i]] = r]
       /\ returns' = Append(returns, [stage |-> inflight, value |-> r])
  /\ inflight' = "none"
  /\ pc' = ServerPos(i + 1)
  /\ UNCHANGED <<inputVars, pipeline_data, clock, heap, query, state, calls,
                 writes, raisedBy, result, http>>

ServerRaise(i) ==
  /\ entry = "server"
  /\ pc = ServerPos(i)
  /\ inflight = Stages[i]
  /\ \E e \in StageErrors : http' = ServerError(e)
  /\ raisedBy' = inflight
  /\ inflight' = "none"
  /\ pc' = "server_done"
  /\ UNCHANGED <<inputVars, scriptVars, clock, heap, query, state, calls,
                 returns, writes, result>>

\* QueryResponse(text=writer_output["response"],
\*               visualization_url=designer_output.get("visualization_url"))
ServerResponse(out, t) ==
  IF ~IsDict(out["write"]) THEN Fail("TypeError", "object is not subscriptable")
  ELSE IF "response" \notin DOMAIN out["write"].m THEN Fail("KeyError", "'response'")
  ELSE IF ~IsDict(out["visualize"]) THEN Fail("AttributeError", "no attribute 'get'")
  ELSE LET text == out["write"].m["response"]
           visualization_url == DictGet(out["visualize"].m, "visualization_url", Null)
       IN IF IsStr(text) /\ visualization_url.t \in {"str", "null"}
          THEN [ok |-> TRUE,
                body |-> [text |-> text.s, visualization_url |-> visualization_url,
                          created_at |-> t]]
          ELSE Fail("ValidationError", "validation error for QueryResponse")

ServerRespond ==
  /\ entry = "server"
  /\ pc = "server_respond"
  /\ \E t \in Now :
       LET r == ServerResponse(outputs, t) IN
         /\ http' = IF r.ok THEN [status |-> 200, body |-> r.body]
                    ELSE ServerError(r.exc)
         /\ clock' = t
  /\ pc' = "server_done"
  /\ UNCHANGED <<inputVars, scriptVars, heap, query, state, inflight, calls,
                 returns, writes, raisedBy, result>>

Next ==
  \/ CreateUserQuery
  \/ ScriptStart
  \/ \E i \in 1..Len(ScriptOrder) : ScriptInvoke(i)
  \/ \E i \in 1..Len(ScriptOrder) : ScriptReturn(i)
  \/ \E i \in 1..Len(ScriptOrder) : ScriptRaise(i)
  \/ ServerStart
  \/ \E i \in 1..Len(Stages) : ServerInvoke(i)
  \/ \E i \in 1..Len(Stages) : ServerReturn(i)
  \/ \E i \in 1..Len(Stages) : ServerRaise(i)
  \/ ServerRespond
  \/ ApiReceive
  \/ ApiRespond
  \/ ApiError
  \/ ProcessQueryEnter
  \/ \E node \in DOMAIN NodeStage : InvokeStage(node)
  \/ process_intent
  \/ retrieve_info
  \/ analyze_info
  \/ compose_response
  \/ generate_visual
  \/ StageRaises
  \/ finalize

Spec == Init /\ [][Next]_vars

\* Every step of a handler, of process_query and of the workflow is taken in
\* the end (the event loop runs whatever is ready), and every awaited stage
\* returns or raises in the end.  At any time at most one of the actions of
\* a query is enabled, so weak fairness of Next says just that.
Fairness == WF_vars(Next)
LiveSpec == Init /\ [][Next]_vars /\ Fairness

(***************************************************************************)
(* Two invocations of AgentCoordinator.process_query in flight at the same *)
(* time, on one coordinator: the agents are shared.  The callers have      *)
(* created their queries, from the same context dict or from two; control  *)
(* passes from one invocation to the other where a stage is awaited and    *)
(* between the nodes of the workflow.                                      *)
(***************************************************************************)
ConcTexts == {s \in QueryTexts : s # <<>> /\ Strip(s) = s}

\* the dict a caller passes as context, the dict process_query makes when
\* that one is empty, and id(query)
CtxRef(p) == "ctx" \o ToString(p)
FreshRef(p) == "fresh" \o ToString(p)
ObjId(p) == "id" \o ToString(p)

\* an agent keeps nothing between calls: what it returns is a function of
\* the input it is given
ConcStageResult(stage, input) ==
  CASE stage = "intent" -> Map([intent |-> Str("intent of " \o input.query.s)])
    [] stage = "retrieve" -> Map([information |-> Str("data for " \o input.query.s)])
    [] stage = "reason" -> Map([analysis |-> Str("analysis of " \o input.query.s)])
    [] stage = "write" -> Map([response |-> Str("answer to " \o input.query.s)])
    [] stage = "visualize" ->
         Map([visualization |->
                Map([image_url |-> Str("image for " \o input.response.s)])])

ConcInit ==
  /\ entry = "concurrent"
  /\ reqText = <<>>
  /\ reqCtx = Null
  /\ pipeline_data = EmptyMap
  /\ outputs = NoOutputs
  /\ pc = "start"
  /\ clock = 0
  /\ heap = [r \in {"query", "local"} |-> EmptyMap]
  /\ query = NoQuery
  /\ state = NoState
  /\ inflight = "none"
  /\ calls = <<>>
  /\ returns = <<>>
  /\ writes = <<>>
  /\ raisedBy = "none"
  /\ result = NoResult
  /\ http = NoHttp
  /\ AgentIdle
  /\ ServicesIdle
  /\ \E same \in BOOLEAN, text \in [TaskIds -> ConcTexts],
        ctx \in [TaskIds -> CallerContexts] :
       /\ same => ctx[1] = ctx[2]
       /\ tasks = [p \in TaskIds |->
                     [NoTask EXCEPT
                        !.pc = "call_coordinator",
                        !.query = [UserQueryCreate(text[p], ctx[p], 0).q EXCEPT
                                     !.context = IF same /\ Truthy(ctx[p])
                                                 THEN CtxRef(1) ELSE CtxRef(p)]]]
       /\ objs = [r \in {CtxRef(p) : p \in TaskIds} \cup {FreshRef(p) : p \in TaskIds} |->
                    IF \E p \in TaskIds : r = CtxRef(p)
                    THEN LET p == CHOOSE p \in TaskIds : r = CtxRef(p)
                         IN UserQueryCreate(text[p], ctx[p], 0).ctx
                    ELSE EmptyMap]

concIdleVars == <<entry, reqText, reqCtx, pc, heap, query, state, inflight, calls,
                  returns, writes, raisedBy, result, http, scriptVars, agentVars,
                  serviceVars>>

\* process_query of invocation p is entered
ConcEnter(p) ==
  /\ tasks[p].pc = "call_coordinator"
  /\ \E t \in Now :
       LET i == ProcessQueryInitAt(objs, tasks[p].query, t, FreshRef(p), ObjId(p)) IN
         /\ objs' = i.heap
         /\ tasks' = [tasks EXCEPT ![p].state = i.state,
                                   ![p].query_id = i.heap[i.state.context]["query_id"],
                                   ![p].pc = EntryPoint]
         /\ clock' = t
  /\ UNCHANGED concIdleVars

\* a node of invocation p builds the input of its agent and awaits it
ConcInvoke(p) ==
  /\ tasks[p].pc \in DOMAIN NodeStage
  /\ tasks[p].inflight = "none"
  /\ tasks' = [tasks EXCEPT
                 ![p].inflight = NodeStage[tasks[p].pc],
                 ![p].calls = Append(@, [stage |-> NodeStage[tasks[p].pc],
                                         input |-> NodeInput(tasks[p].pc, tasks[p].state, objs)])]
  /\ UNCHANGED <<concIdleVars, clock, objs>>

\* the agent returns to invocation p, whose node merges the value and
\* follows its edge
ConcReturn(p) ==
  /\ tasks[p].inflight # "none"
  /\ LET T == tasks[p]
         r == ConcStageResult(T.inflight, Last(T.calls).input)
         m == NodeMerge(T.pc, T.state, objs, r)
     IN IF m.ok
        THEN /\ objs' = m.heap
             /\ tasks' = [tasks EXCEPT ![p].inflight = "none",
                                       ![p].returns = Append(@, [stage |-> T.inflight, value |-> r]),
                                       ![p].state = m.state,
                                       ![p].pc = Edges[T.pc]]
        ELSE /\ objs' = objs
             /\ tasks' = [tasks EXCEPT ![p].inflight = "none",
                                       ![p].returns = Append(@, [stage |-> T.inflight, value |-> r]),
                                       ![p].result = Raised(m.exc),
                                       ![p].pc = "coordinator_done"]
  /\ UNCHANGED <<concIdleVars, clock>>

\* the agent raises: process_query of invocation p raises
ConcRaise(p) ==
  /\ tasks[p].inflight # "none"
  /\ \E e \in StageErrors :
       tasks' = [tasks EXCEPT ![p].inflight = "none",
                              ![p].result = Raised(e),
                              ![p].pc = "coordinator_done"]
  /\ UNCHANGED <<concIdleVars, clock, objs>>

\* the workflow of invocation p ends and its Response is built
ConcFinalize(p) ==
  /\ tasks[p].pc = "finalize"
  /\ \E t \in Now :
       LET b == BuildResponse(tasks[p].state, objs, t) IN
         /\ tasks' = [tasks EXCEPT
                        ![p].result = IF b.ok THEN Returned(b.response) ELSE Raised(b.exc),
                        ![p].pc = "coordinator_done"]
         /\ clock' = t
  /\ UNCHANGED <<concIdleVars, objs>>

ConcNext ==
  \/ \E p \in TaskIds : ConcEnter(p)
  \/ \E p \in TaskIds : ConcInvoke(p)
  \/ \E p \in TaskIds : ConcReturn(p)
  \/ \E p \in TaskIds : ConcRaise(p)
  \/ \E p \in TaskIds : ConcFinalize(p)

ConcSpec == ConcInit /\ [][ConcNext]_vars

(***************************************************************************)
(* The process operations of the agents of src/agents: the retriever       *)
(* (InstructorXLRetrieverAgent), the reason agent (Mistral7BReasonAgent),  *)
(* the writer (GPT4WriterAgent) and the designer                           *)
(* (StableDiffusionDesignerAgent).  One call of process on a new instance  *)
(* is followed.  What the model, the data sources and the rendering do is  *)
(* not modelled: the internal processing either comes through or raises.   *)
(***************************************************************************)
AgentKinds == {"retrieve", "reason", "write", "visualize"}

\* the input_data a caller may pass
AgentInputs ==
  { Null,
    Map(EmptyMap),
    Map([query |-> Str("q"), context |-> Map(EmptyMap)]),
    Map([query |-> Str("q"), context |-> Null]),
    Map([query |-> Str("q"),
         context |-> Map([intent |-> Map([main_topic |-> Str("investment")])])]),
    Map([query |-> Str("q"), context |-> Map([intent |-> Str("investment")])]),
    Map([query |-> Str("q"), context |-> Map(EmptyMap), retrieved_info |-> Null]),
    Map([query |-> Str("q"), context |-> Map(EmptyMap),
         retrieved_info |-> Map([information |-> Map(EmptyMap)])]),
    Map([context |-> Map(EmptyMap), analysis |-> Map([key_findings |-> Str("stable")])]),
    Map([context |-> Map(EmptyMap), response |-> Str("answer")]) }

\* x.get(...) on something that is not a dict
AttributeError == [type |-> "AttributeError", msg |-> <<"object has no attribute 'get'">>]

AgentReturned(v) == [kind |-> "returned", value |-> v]

\* the exception that leaves process before any try block is entered, or
\* NoFailure: only the retriever reads its input outside a try block, in
\* process and at the top of retrieve_information
InputError(kind, input) ==
  IF kind # "retrieve" THEN NoFailure
  ELSE IF ~IsDict(input) THEN AttributeError
  ELSE LET context == DictGet(input.m, "context", Map(EmptyMap)) IN
    IF ~IsDict(context) THEN AttributeError
    ELSE IF ~IsDict(DictGet(context.m, "intent", Map(EmptyMap))) THEN AttributeError
    ELSE NoFailure

\* the exception raised where process reads its input inside its own try
\* block, or NoFailure
GuardedInputError(kind, input) ==
  IF kind \in {"reason", "write", "visualize"} /\ ~IsDict(input)
  THEN AttributeError
  ELSE IF kind = "visualize"
  THEN \* generate_visualization reads the topic before its own try block
       LET context == DictGet(input.m, "context", Map(EmptyMap)) IN
         IF ~IsDict(context) THEN AttributeError
         ELSE IF ~IsDict(DictGet(context.m, "intent", Map(EmptyMap)))
         THEN AttributeError
         ELSE NoFailure
  ELSE NoFailure

\* how the internal processing (retrieve_information, analyze,
\* compose_response, generate_visualization) may end: NoFailure when it comes
\* through, or the exception it runs into; with an argument it cannot read
\* it does not come through
Internal(kind, input) ==
  LET arg == CASE kind = "reason" -> DictGet(input.m, "retrieved_info", Map(EmptyMap))
               [] kind = "write" -> DictGet(input.m, "context", Map(EmptyMap))
               [] OTHER -> Map(EmptyMap)
  IN IF ~IsDict(arg) THEN {AttributeError} ELSE {NoFailure} \cup StageErrors

\* retrieve_information: the structured information, or the fallback of its
\* except clause
RetrieveInformation(e) ==
  IF e = NoFailure
  THEN Map([information |-> Map([market_data |-> Str("live"),
                                 educational_content |-> Str("content")]),
            analysis |-> Map(EmptyMap),
            market_sentiment |-> Str("positive"),
            metadata |-> Map([sources |-> Str("sources")])])
  ELSE Map([information |-> Map([market_data |-> Str("fallback"),
                                 educational_content |-> Str("basic")]),
            analysis |-> Map([error |-> Str("Lo siento, hubo un problema al obtener los datos")]),
            market_sentiment |-> Str("neutral"),
            metadata |-> Map([error |-> Str(Join(e.msg)), using_fallback |-> Str("True")])])

\* analyze: the parsed sections with their metadata, or the mapping of its
\* except clause
Analyze(e) ==
  IF e = NoFailure
  THEN Map([hallazgos_clave |-> Str("findings"),
            acciones_recomendadas |-> Str("actions"),
            nivel_confianza |-> Str("0.0"),
            metadata |-> Map([risk_score |-> Str("moderado")])])
  ELSE Map([error |-> Str("Lo siento, hubo un problema al analizar la informacion financiera."),
            fallback_analysis |-> Map([nivel_confianza |-> Str("bajo")]),
            metadata |-> Map([error |-> Str(Join(e.msg)), using_fallback |-> Str("True")])])

\* the except clause of Mistral7BReasonAgent.process
ReasonProcessExcept(e) ==
  Map([error |-> Str("Lo siento, hubo un problema al procesar la consulta."),
       details |-> Str(Join(e.msg))])

\* the texts the language model may answer with
Completions == QueryTexts

\* compose_response, which returns the stripped content of the completion
\* and whose except clauses return the fallback text, and the except clause
\* of GPT4WriterAgent.process, which does the same
ComposeResponse(e, content) ==
  IF e = NoFailure THEN Str(Join(Strip(content)))
  ELSE Str("Lo siento, hubo un problema al generar la respuesta detallada.")

\* generate_visualization when it comes through
GenerateVisualization ==
  Map([chart_url |-> Str("/static//images/chart.png"),
       image_url |-> Str("/static//images/image.png"),
       metadata |-> Map([topic |-> Str("default")])])

\* the except clause of generate_visualization: a ValueError is raised
\* again with a longer message, any other exception is turned into a
\* result without image
GenerateVisualizationExcept(e) ==
  IF e.type = "ValueError"
  THEN Raised([type |-> "ValueError",
               msg |-> <<"Error generating visualization: ">> \o e.msg])
  ELSE AgentReturned(Map([image_url |-> Null,
                          image_metadata |-> Map([error |-> Str(Join(e.msg)),
                                                  topic |-> Str("default")])]))

\* the except clause of StableDiffusionDesignerAgent.process
DesignerProcessExcept(e, t) ==
  Map([visualization |-> Null,
       error |-> Map([message |-> Str(Join(e.msg)), type |-> Str(e.type),
                      timestamp |-> Str(IsoFormat(t))])])

\* StableDiffusionDesignerAgent.process from the call of
\* generate_visualization on, when the rendering ended with e
DesignerOutcome(e, t) ==
  IF e = NoFailure THEN Map([visualization |-> GenerateVisualization])
  ELSE LET g == GenerateVisualizationExcept(e) IN
         IF g.kind = "raised" THEN DesignerProcessExcept(g.exc, t)
         ELSE Map([visualization |-> g.value])

\* what process delivers when its processing ended with e
AgentOutcome(kind, e, content) ==
  CASE kind = "retrieve" -> AgentReturned(RetrieveInformation(e))
    [] kind = "reason" -> AgentReturned(Analyze(e))
    [] kind = "write" ->
         AgentReturned(Map([response |-> ComposeResponse(e, content)]))
    [] kind = "visualize" -> AgentReturned(DesignerOutcome(e, clock))

\* what process delivers when reading its input inside its try block failed
\* with e
GuardedOutcome(kind, e) ==
  CASE kind = "reason" -> AgentReturned(ReasonProcessExcept(e))
    [] kind = "write" -> AgentReturned(Map([response |-> ComposeResponse(e, <<>>)]))
    [] kind = "visualize" -> AgentReturned(DesignerProcessExcept(e, clock))

AgentInit ==
  /\ entry = "agent"
  /\ reqText = <<>>
  /\ reqCtx = Null
  /\ pipeline_data = EmptyMap
  /\ outputs = NoOutputs
  /\ pc = "start"
  /\ clock = 0
  /\ heap = [r \in {"query", "local"} |-> EmptyMap]
  /\ query = NoQuery
  /\ state = NoState
  /\ inflight = "none"
  /\ calls = <<>>
  /\ returns = <<>>
  /\ writes = <<>>
  /\ raisedBy = "none"
  /\ result = NoResult
  /\ http = NoHttp
  /\ ConcIdle
  /\ ServicesIdle
  /\ agentKind \in AgentKinds
  /\ agentInput \in AgentInputs
  /\ agentPc = "start"
  /\ failure = NoFailure
  /\ outcome = NoResult

agentIdleVars == <<entry, reqText, reqCtx, pc, clock, heap, query, state, inflight,
                   calls, returns, writes, raisedBy, result, http, scriptVars,
                   concVars, serviceVars>>

\* process is called and reads its input; when that goes well the internal
\* processing is awaited
AgentProcess ==
  /\ agentPc = "start"
  /\ LET e == InputError(agentKind, agentInput)
         g == GuardedInputError(agentKind, agentInput)
     IN IF e # NoFailure
        THEN /\ failure' = e
             /\ outcome' = Raised(e)
             /\ agentPc' = "done"
        ELSE IF g # NoFailure
        THEN /\ failure' = g
             /\ outcome' = GuardedOutcome(agentKind, g)
             /\ agentPc' = "done"
        ELSE /\ agentPc' = "internal"
             /\ UNCHANGED <<failure, outcome>>
  /\ UNCHANGED <<agentIdleVars, agentKind, agentInput>>

\* the internal processing comes through and process returns its result
AgentInternalReturns ==
  /\ agentPc = "internal"
  /\ NoFailure \in Internal(agentKind, agentInput)
  /\ \E content \in IF agentKind = "write" THEN Completions ELSE {<<>>} :
       outcome' = AgentOutcome(agentKind, NoFailure, content)
  /\ agentPc' = "done"
  /\ UNCHANGED <<agentIdleVars, agentKind, agentInput, failure>>

\* the internal processing raises and an except clause takes over
AgentInternalRaises ==
  /\ agentPc = "internal"
  /\ \E e \in Internal(agentKind, agentInput) \ {NoFailure} :
       /\ failure' = e
       /\ outcome' = AgentOutcome(agentKind, e, <<>>)
  /\ agentPc' = "done"
  /\ UNCHANGED <<agentIdleVars, agentKind, agentInput>>

AgentNext ==
  \/ AgentProcess
  \/ AgentInternalReturns
  \/ AgentInternalRaises

AgentSpec == AgentInit /\ [][AgentNext]_vars

(***************************************************************************)
(* The visualization cache of StableDiffusionDesignerAgent                 *)
(* (agents/designer_agent.py): process calls on one instance, one after    *)
(* the other, while time passes.  Times are minutes.                       *)
(***************************************************************************)
\* how many times the clock is moved on
MaxTicks == 4

\* the variables of the pipelines and of the single agent call
quietVars == <<entry, reqText, reqCtx, pc, clock, heap, query, state, inflight,
               calls, returns, writes, raisedBy, result, http, scriptVars,
               concVars, agentVars>>

\* nothing of the pipelines is followed
Quiet ==
  /\ reqText = <<>>
  /\ reqCtx = Null
  /\ pipeline_data = EmptyMap
  /\ outputs = NoOutputs
  /\ pc = "start"
  /\ clock = 0
  /\ heap = [r \in {"query", "local"} |-> EmptyMap]
  /\ query = NoQuery
  /\ state = NoState
  /\ inflight = "none"
  /\ calls = <<>>
  /\ returns = <<>>
  /\ writes = <<>>
  /\ raisedBy = "none"
  /\ result = NoResult
  /\ http = NoHttp
  /\ ConcIdle
  /\ AgentIdle

\* the clock is followed from midnight or from 23:00 on, in steps of half
\* an hour for the designer and of five minutes for the retriever
DayMinutes == 1440
LateStart == 1380
TickMinutes == IF entry = "retriever" THEN 5 ELSE 30

\* time passes
Tick ==
  /\ entry \in {"designer", "retriever"}
  /\ now < (IF now >= LateStart THEN LateStart ELSE 0) + MaxTicks * TickMinutes
  /\ now' = now + TickMinutes
  /\ UNCHANGED <<quietVars, designerVars, retrieverVars, storageVars>>

\* self.cache_duration = timedelta(hours=1)
cache_duration == 60

\* the input_data the designer may be given
DesignerInputs ==
  { Null,
    Map(EmptyMap),
    Map([context |-> Map(EmptyMap), response |-> Str("answer")]),
    Map([context |-> Map([intent |-> Str("investment")]),
         response |-> Str("answer")]) }

\* _get_cache_key: the encoding of context, text and the day
GetCacheKey(context, text, t) == <<context, text, t \div DayMinutes>>

\* an entry is taken for valid whatever its age
IsCacheValidAnyAge(cache_key) ==
  cache_key \in DOMAIN cache_timestamps

\* _is_cache_valid
IsCacheValid(cache_key) ==
  /\ cache_key \in DOMAIN cache_timestamps
  /\ now - cache_timestamps[cache_key] < cache_duration

\* a finished process call
DesignerDone(input, key, hit, e, value) ==
  [pc |-> "done", input |-> input, key |-> key, hit |-> hit, failure |-> e,
   value |-> value]

DesignerInit ==
  /\ entry = "designer"
  /\ Quiet
  /\ now \in {0, LateStart}
  /\ visualization_cache = EmptyMap
  /\ cache_timestamps = EmptyMap
  /\ designerCall = NoCall
  /\ data_cache = EmptyMap
  /\ last_update = EmptyMap
  /\ fetches = EmptyMap
  /\ files = EmptyMap
  /\ saved = NoResult

\* process is called: the input is read and the cache is looked up; a valid
\* entry is returned, otherwise generate_visualization is awaited
DesignerProcess ==
  /\ designerCall.pc = "idle"
  /\ \E input \in DesignerInputs :
       IF ~IsDict(input)
       THEN designerCall' =
              DesignerDone(input, <<>>, FALSE, AttributeError,
                           DesignerProcessExcept(AttributeError, now))
       ELSE LET context == DictGet(input.m, "context", Map(EmptyMap))
                text == DictGet(input.m, "response", Str(""))
                cache_key == GetCacheKey(context, text, now)
                e == GuardedInputError("visualize", input)
            IN IF IsCacheValid(cache_key) /\ cache_key \in DOMAIN visualization_cache
               THEN designerCall' =
                      DesignerDone(input, cache_key, TRUE, NoFailure,
                                   Map([visualization |-> visualization_cache[cache_key]]))
               ELSE IF e # NoFailure
               THEN designerCall' =
                      DesignerDone(input, cache_key, FALSE, e,
                                   DesignerProcessExcept(e, now))
               ELSE designerCall' =
                      [pc |-> "generating", input |-> input, key |-> cache_key,
                       hit |-> FALSE, failure |-> NoFailure, value |-> Null]
  /\ UNCHANGED <<quietVars, now, visualization_cache, cache_timestamps,
                 retrieverVars, storageVars>>

\* generate_visualization is over: what it returned is stored in the cache
\* with the current time and returned; what it raised goes to the except
\* clause of process
DesignerGenerated ==
  /\ designerCall.pc = "generating"
  /\ \E e \in {NoFailure} \cup StageErrors :
       LET g == IF e = NoFailure THEN AgentReturned(GenerateVisualization)
                ELSE GenerateVisualizationExcept(e)
           cache_key == designerCall.key
       IN IF g.kind = "returned"
          THEN /\ visualization_cache' =
                    DictUpdate(visualization_cache, [k \in {cache_key} |-> g.value])
               /\ cache_timestamps' =
                    DictUpdate(cache_timestamps, [k \in {cache_key} |-> now])
               /\ designerCall' =
                    DesignerDone(designerCall.input, cache_key, FALSE, e,
                                 Map([visualization |-> g.value]))
          ELSE /\ UNCHANGED <<visualization_cache, cache_timestamps>>
               /\ designerCall' =
                    DesignerDone(designerCall.input, cache_key, FALSE, e,
                                 DesignerProcessExcept(g.exc, now))
  /\ UNCHANGED <<quietVars, now, retrieverVars, storageVars>>

\* the caller has its result
DesignerReturn ==
  /\ designerCall.pc = "done"
  /\ designerCall' = NoCall
  /\ UNCHANGED <<quietVars, now, visualization_cache, cache_timestamps,
                 retrieverVars, storageVars>>

DesignerNext ==
  \/ Tick
  \/ DesignerProcess
  \/ DesignerGenerated
  \/ DesignerReturn

DesignerSpec == DesignerInit /\ [][DesignerNext]_vars

(***************************************************************************)
(* The data cache of InstructorXLRetrieverAgent                            *)
(* (agents/retriever_agent.py): the fetch_with_cache calls of one          *)
(* instance while time passes.  Times are minutes.                         *)
(***************************************************************************)
\* self.cache_ttl
cache_ttl ==
  [exchange_rate |-> 60, economic_indicators |-> 1440, news |-> 30,
   market_data |-> 15, stock_prices |-> 5]

\* self.cache_ttl.get(endpoint, timedelta(minutes=15))
CacheTtl(endpoint) ==
  IF endpoint \in DOMAIN cache_ttl THEN cache_ttl[endpoint] ELSE 15

\* the endpoints whose fetches are followed, with the parameters
\* _gather_financial_data passes for them
Endpoints == {"stock_prices", "market_data"}
Params == [stock_prices |-> "{\"market\": \"main\"}",
           market_data |-> "{\"type\": \"summary\"}"]

\* cache_key of fetch_with_cache
CacheKey(endpoint) == endpoint \o ":" \o Params[endpoint]

\* what a request may be answered with: a status and, for 200, the data
Answers ==
  { [status |-> 200, data |-> Map([price |-> Str("1")])],
    [status |-> 200, data |-> Map([price |-> Str("2")])],
    [status |-> 503, data |-> Null] }

NoFetch == [pc |-> "idle", status |-> 0, result |-> Null]

\* every entry is reused for 15 minutes
IsFreshDefaultTtl(endpoint) ==
  LET cache_key == CacheKey(endpoint) IN
    /\ cache_key \in DOMAIN data_cache
    /\ cache_key \in DOMAIN last_update
    /\ now - last_update[cache_key] < 15

\* the test of fetch_with_cache for an entry that can be reused
IsFresh(endpoint) ==
  LET cache_key == CacheKey(endpoint) IN
    /\ cache_key \in DOMAIN data_cache
    /\ cache_key \in DOMAIN last_update
    /\ now - last_update[cache_key] < CacheTtl(endpoint)

RetrieverInit ==
  /\ entry = "retriever"
  /\ Quiet
  /\ now = 0
  /\ visualization_cache = EmptyMap
  /\ cache_timestamps = EmptyMap
  /\ designerCall = NoCall
  /\ data_cache = EmptyMap
  /\ last_update = EmptyMap
  /\ fetches = [endpoint \in Endpoints |-> NoFetch]
  /\ files = EmptyMap
  /\ saved = NoResult

\* fetch_with_cache is called: a fresh entry is returned, otherwise the
\* request is sent
FetchWithCache(endpoint) ==
  /\ fetches[endpoint].pc = "idle"
  /\ fetches' = [fetches EXCEPT ![endpoint] =
                   IF IsFresh(endpoint)
                   THEN [pc |-> "done", status |-> 0,
                         result |-> data_cache[CacheKey(endpoint)]]
                   ELSE [pc |-> "requesting", status |-> 0, result |-> Null]]
  /\ UNCHANGED <<quietVars, now, data_cache, last_update, designerVars,
                 storageVars>>

\* the request is answered: data that came with status 200 is stored with
\* the current time and returned; any other status gives None
FetchResponds(endpoint) ==
  /\ fetches[endpoint].pc = "requesting"
  /\ \E response \in Answers :
       IF response.status = 200
       THEN /\ data_cache' = DictUpdate(data_cache,
                               [k \in {CacheKey(endpoint)} |-> response.data])
            /\ last_update' = DictUpdate(last_update,
                                [k \in {CacheKey(endpoint)} |-> now])
            /\ fetches' = [fetches EXCEPT ![endpoint] =
                             [pc |-> "done", status |-> 200,
                              result |-> response.data]]
       ELSE /\ UNCHANGED <<data_cache, last_update>>
            /\ fetches' = [fetches EXCEPT ![endpoint] =
                             [pc |-> "done", status |-> response.status,
                              result |-> Null]]
  /\ UNCHANGED <<quietVars, now, designerVars, storageVars>>

\* the request raises: the except clause returns None
FetchFails(endpoint) ==
  /\ fetches[endpoint].pc = "requesting"
  /\ fetches' = [fetches EXCEPT ![endpoint] =
                   [pc |-> "done", status |-> -1, result |-> Null]]
  /\ UNCHANGED <<quietVars, now, data_cache, last_update, designerVars,
                 storageVars>>

\* the caller has its result
FetchReturn(endpoint) ==
  /\ fetches[endpoint].pc = "done"
  /\ fetches' = [fetches EXCEPT ![endpoint] = NoFetch]
  /\ UNCHANGED <<quietVars, now, data_cache, last_update, designerVars,
                 storageVars>>

RetrieverNext ==
  \/ Tick
  \/ \E endpoint \in Endpoints : FetchWithCache(endpoint)
  \/ \E endpoint \in Endpoints : FetchResponds(endpoint)
  \/ \E endpoint \in Endpoints : FetchFails(endpoint)
  \/ \E endpoint \in Endpoints : FetchReturn(endpoint)

RetrieverSpec == RetrieverInit /\ [][RetrieverNext]_vars

(***************************************************************************)
(* References to stored images (infrastructure/storage/local_storage.py)   *)
(***************************************************************************)
\* a reference is the sequence of its characters
ImagesDir == <<"/", "i", "m", "a", "g", "e", "s", "/">>
StaticDir == <<"/", "s", "t", "a", "t", "i", "c", "/">>
StaticImages ==
  <<"/", "s", "t", "a", "t", "i", "c", "/", "i", "m", "a", "g", "e", "s">>

\* what save_image returns for the file it wrote
ImagePath(filename) == ImagesDir \o filename

\* LocalStorageService.get_image_url
GetImageUrl(path) == StaticDir \o path

\* str.startswith
StartsWith(s, prefix) ==
  /\ Len(s) >= Len(prefix)
  /\ SubSeq(s, 1, Len(prefix)) = prefix

\* the characters of the references the stages of the model return
Spelling(s) ==
  CASE s = "" -> <<>>
    [] s = "/images/a.png" -> ImagePath(<<"a", ".", "p", "n", "g">>)
    [] s = "chart.png" -> <<"c", "h", "a", "r", "t", ".", "p", "n", "g">>

(***************************************************************************)
(* LocalStorageService.save_image                                          *)
(* (infrastructure/storage/local_storage.py): calls on one storage         *)
(* directory, one after the other.  A file name is the sequence of its     *)
(* pieces, the content of a file the sequence of its bytes.                *)
(***************************************************************************)
\* the image data a caller may pass
ImageData == {<<>>, <<1>>, <<1, 2>>}
Extensions == {"jpeg", "png"}

\* str(uuid.uuid4())[:8]
UniqueIds == {"0a1b2c3d", "4e5f6a7b"}

\* _generate_filename
GenerateFilename(t, unique_id, extension) ==
  <<IsoFormat(t), "_", unique_id, ".", extension>>

\* what the file system does with the write: the file is written, open
\* raises, write raises after a part was written, or nothing is written
WriteOutcomes == {"written", "open fails", "write fails", "nothing written"}

OSError == [type |-> "OSError", msg |-> <<"cannot write">>]

\* file_path.unlink()
Unlink(fs, file_path) == [n \in DOMAIN fs \ {file_path} |-> fs[n]]

\* open(file_path, "wb") and f.write(data)
WriteFile(fs, file_path, data) == DictUpdate(fs, [n \in {file_path} |-> data])

\* the try block of save_image: the files it leaves and the exception it
\* ends with
SaveImageTry(fs, image_data, file_path, written) ==
  IF image_data = <<>>
  THEN [fs |-> fs, exc |-> [type |-> "ValueError", msg |-> <<"Empty image data">>]]
  ELSE IF written = "open fails"
  THEN [fs |-> fs, exc |-> OSError]
  ELSE IF written = "write fails"
  THEN [fs |-> WriteFile(fs, file_path, SubSeq(image_data, 1, Len(image_data) - 1)),
        exc |-> OSError]
  ELSE LET w == WriteFile(fs, file_path,
                          IF written = "written" THEN image_data ELSE <<>>)
       IN IF file_path \notin DOMAIN w \/ Len(w[file_path]) = 0
          THEN [fs |-> w,
                exc |-> [type |-> "ValueError",
                         msg |-> <<"Failed to write image file">>]]
          ELSE [fs |-> w, exc |-> NoFailure]

\* an except clause that leaves the partially written file where it is
SaveImageKeepPartial(fs, image_data, filename, written) ==
  LET t == SaveImageTry(fs, image_data, filename, written) IN
    IF t.exc # NoFailure
    THEN [fs |-> t.fs, result |-> Raised(t.exc)]
    ELSE [fs |-> t.fs, result |-> AgentReturned(ImagePath(filename))]

\* save_image: the files it leaves and what it delivers
SaveImage(fs, image_data, filename, written) ==
  LET t == SaveImageTry(fs, image_data, filename, written) IN
    IF t.exc # NoFailure
    THEN [fs |-> IF filename \in DOMAIN t.fs THEN Unlink(t.fs, filename) ELSE t.fs,
          result |-> Raised(t.exc)]
    ELSE [fs |-> t.fs, result |-> AgentReturned(ImagePath(filename))]

StorageInit ==
  /\ entry = "storage"
  /\ Quiet
  /\ now = 0
  /\ visualization_cache = EmptyMap
  /\ cache_timestamps = EmptyMap
  /\ designerCall = NoCall
  /\ data_cache = EmptyMap
  /\ last_update = EmptyMap
  /\ fetches = EmptyMap
  /\ files = EmptyMap
  /\ saved = NoResult

\* save_image is called and runs to its end
SaveImageCall ==
  /\ \E image_data \in ImageData, extension \in Extensions,
        unique_id \in UniqueIds, written \in WriteOutcomes :
       LET filename == GenerateFilename(now, unique_id, extension)
           s == SaveImage(files, image_data, filename, written)
       IN /\ files' = s.fs
          /\ saved' = [filename |-> filename, image_data |-> image_data,
                       result |-> s.result]
  /\ UNCHANGED <<quietVars, now, designerVars, retrieverVars>>

StorageNext == SaveImageCall

StorageSpec == StorageInit /\ [][StorageNext]_vars

(***************************************************************************)
(* Properties                                                              *)
(***************************************************************************)
Mandatory == {"intent", "retrieve", "reason", "write"}
Coordinated == entry \in {"direct", "api"}

\* the run is over: the caller has its answer
Finished ==
  \/ entry = "direct" /\ pc = "coordinator_done"
  \/ pc \in {"api_done", "script_done", "server_done"}

\* a message text has name among its pieces
Mentions(parts, name) == \E i \in 1..Len(parts) : parts[i] = name

\* stage invocations that have neither returned nor raised
Outstanding == Len(calls) - Len(returns) - (IF raisedBy # "none" THEN 1 ELSE 0)

\* the value returned by the i-th stage has been merged where its pipeline keeps it
MergedOutput(i) ==
  LET v == returns[i].value IN
    CASE entry \in {"direct", "api"} ->
          (CASE Stages[i] = "intent" -> state.intent = v
             [] Stages[i] = "retrieve" ->
                  /\ IsDict(v)
                  /\ \A k \in DOMAIN v.m :
                       k \in DOMAIN heap[state.context] /\ heap[state.context][k] = v.m[k]
             [] Stages[i] = "reason" -> state.analysis = v
             [] Stages[i] = "write" -> IsDict(v) /\ state.response = v.m["response"]
             [] Stages[i] = "visualize" ->
                  state.visualization =
                    IF IsDict(v) /\ "visualization" \in DOMAIN v.m
                    THEN v.m["visualization"] ELSE v)
      [] entry = "script" ->
           /\ IsDict(v)
           /\ \A k \in DOMAIN v.m :
                k \in DOMAIN calls[i + 1].input /\ calls[i + 1].input[k] = v.m[k]
      [] entry = "server" -> outputs[Stages[i]] = v

\* C1: the stages are invoked in the order Intent, Retrieve, Reason, Write,
\* Visualize; a stage is invoked only after its predecessor has returned and
\* its output has been merged; at most one stage is in progress at a time.
C1_StagesInOrder ==
  /\ Len(calls) <= Len(Stages)
  /\ \A i \in 1..Len(calls) :
       /\ calls[i].stage = Stages[i]
       /\ i > 1 => /\ Len(returns) >= i - 1
                   /\ returns[i - 1].stage = Stages[i - 1]
                   /\ MergedOutput(i - 1)
  /\ Outstanding \in {0, 1}
  /\ Outstanding = 1 <=> inflight # "none"
  /\ inflight # "none" => inflight = Last(calls).stage

\* all five stages have run, one after the other, and a Response came back
C1_Witness ==
  /\ entry = "direct"
  /\ Len(calls) = 5 /\ Len(returns) = 5
  /\ result.kind = "response"

\* C2: when Visualize raises after the four mandatory stages succeeded,
\* process_query still returns a Response, with the text Write produced and
\* an empty visualization.
C2_VisualizeFailureAbsorbed ==
  (Coordinated /\ raisedBy = "visualize") =>
    /\ result.kind = "response"
    /\ Str(result.response.text) = returns[4].value.m["response"]
    /\ result.response.visualization = EmptyMap

\* C3: when a mandatory stage raises, no stage after it is invoked and no
\* Response is constructed or returned.
C3_MandatoryFailureAborts ==
  raisedBy \in Mandatory =>
    /\ inflight = "none"
    /\ Last(calls).stage = raisedBy
    /\ Len(returns) = Len(calls) - 1
    /\ result.kind # "response"
    /\ http.status # 200
    /\ entry = "direct" => result.kind = "raised"
    /\ (entry = "api" /\ Finished) => http.status \in {400, 500}
    /\ (entry = "server" /\ Finished) => http.status = 500

\* Reason raised behind the API: the request ended without a Response
C3_Witness ==
  /\ entry = "api"
  /\ raisedBy = "reason"
  /\ Len(calls) = 3
  /\ pc = "api_done"
  /\ http.status = 500

\* C4: for a query with non-empty text, a Response that process_query returns
\* has non-empty text (an absent or empty answer of Write fails the pipeline).
C4_ResponseTextNonEmpty ==
  (Coordinated /\ Strip(query.query_text) # <<>> /\ result.kind = "response") =>
    result.response.text # ""

\* C5: when a mandatory stage raises, the error the caller gets names that stage.
C5_ErrorNamesStage ==
  (raisedBy \in Mandatory /\ Finished) =>
    CASE entry = "direct" ->
           /\ result.kind = "raised"
           /\ \/ Mentions(result.exc.msg, raisedBy)
              \/ Mentions(result.exc.msg, ScriptAgent[raisedBy])
      [] entry = "api" ->
           \/ Mentions(http.detail, raisedBy)
           \/ Mentions(http.detail, ScriptAgent[raisedBy])
      [] entry = "server" ->
           \/ Mentions(http.detail, raisedBy)
           \/ Mentions(http.detail, ScriptAgent[raisedBy])
      [] entry = "script" ->
           /\ "agent" \in DOMAIN result.value.m
           /\ result.value.m["agent"] = Str(ScriptAgent[raisedBy])

\* value v is in the input under key: at the top level, in the mapping that
\* is passed under that key, or in the context mapping of the input
Holds(input, key, v) ==
  \/ /\ key \in DOMAIN input
     /\ \/ input[key] = v
        \/ /\ IsDict(input[key])
           /\ key \in DOMAIN input[key].m
           /\ input[key].m[key] = v
  \/ /\ "context" \in DOMAIN input
     /\ IsDict(input["context"])
     /\ key \in DOMAIN input["context"].m
     /\ input["context"].m[key] = v

\* the i-th stage returned a mapping with this key
Produced(i, key) ==
  /\ Len(returns) >= i
  /\ IsDict(returns[i].value)
  /\ key \in DOMAIN returns[i].value.m

\* what the i-th stage produced under key is in the input of the j-th
Delivered(i, key, j) ==
  (Len(calls) >= j /\ Produced(i, key)) =>
    Holds(calls[j].input, key, returns[i].value.m[key])

\* C6: the input of Reason contains the intent that Intent produced and the
\* information that Retrieve produced, the input of Write the analysis that
\* Reason produced, the input of Visualize the response that Write produced.
C6_StageInputs ==
  /\ Delivered(1, "intent", 3)
  /\ Delivered(2, "information", 3)
  /\ Delivered(3, "analysis", 4)
  /\ Delivered(4, "response", 5)

\* a run of the coordinator in which every stage produced its key and the
\* last stage was invoked
C6_Witness ==
  /\ entry = "direct"
  /\ Len(calls) = 5
  /\ Produced(1, "intent") /\ Produced(2, "information")
  /\ Produced(3, "analysis") /\ Produced(4, "response")
  /\ calls[3].input["context"].m["information"] = Str("market data")
  /\ calls[5].input["response"] = Str("answer")

\* the keys whose owner, by the documented contracts, is Retrieve
RetrieveOwned == {"information", "market_sentiment"}
SlotOwner ==
  [intent |-> "intent", analysis |-> "reason", response |-> "write",
   visualization |-> "visualize"]
SlotNames == {Slots[i] : i \in 1..Len(Slots)}

\* the state dict of the coordinator exists
InGraph == Coordinated /\ state.context # "none"

\* C7 as stated: once a key is in the context (or the state) its value stays
\* what it is across every later merge, unless the merging stage owns the key.
C7_KeysUnchanged ==
  [][InGraph =>
       /\ state'.context = state.context
       /\ state'.query = state.query
       /\ \A k \in DOMAIN heap[state.context] :
            /\ k \in DOMAIN heap'[state.context]
            /\ \/ heap'[state.context][k] = heap[state.context][k]
               \/ inflight = "retrieve" /\ k \in RetrieveOwned
       /\ \A k \in SlotNames : state'[k] # state[k] => inflight = SlotOwner[k]]_vars

\* C7 as amended: no merge removes a key; a value in the context changes
\* only in the merge of Retrieve's output and only for a key that this
\* output carries, whose value it takes; a result slot changes only in the
\* merge of the output of its own stage.
C7_ContextMonotone ==
  [][InGraph =>
       /\ state'.context = state.context
       /\ state'.query = state.query
       /\ \A k \in DOMAIN heap[state.context] :
            /\ k \in DOMAIN heap'[state.context]
            /\ heap'[state.context][k] # heap[state.context][k] =>
                 /\ inflight = "retrieve"
                 /\ Len(returns') = Len(returns) + 1
                 /\ IsDict(Last(returns').value)
                 /\ k \in DOMAIN Last(returns').value.m
                 /\ heap'[state.context][k] = Last(returns').value.m[k]
       /\ \A k \in SlotNames : state'[k] # state[k] => inflight = SlotOwner[k]]_vars

\* the output of Retrieve carried query_id and the merge took it over, while
\* the keys set at initialisation are all still there
C7_Witness ==
  /\ InGraph
  /\ Len(returns) >= 2
  /\ heap[state.context]["query_id"] = Str("stage-id")
  /\ {"query_id", "timestamp", "original_query", "information"}
        \subseteq DOMAIN heap[state.context]

\* C8: every result slot is None in the initial state and is assigned at most
\* once, by the node of its own stage and in pipeline order; in a run that
\* returns a Response every slot has been assigned exactly once.
C8_SlotsWrittenOnce ==
  Coordinated =>
    /\ \A i \in 1..Len(writes) :
         /\ writes[i].slot \in SlotNames
         /\ writes[i].by = SlotOwner[writes[i].slot]
         /\ \A j \in 1..Len(writes) :
              i < j => \E a, b \in 1..Len(Slots) :
                         a < b /\ Slots[a] = writes[i].slot /\ Slots[b] = writes[j].slot
    /\ \A k \in SlotNames :
         (\A i \in 1..Len(writes) : writes[i].slot # k) => state[k] = Null
    /\ result.kind = "response" =>
         {writes[i].slot : i \in 1..Len(writes)} = SlotNames

\* a Response was returned after the four slots were assigned
C8_Witness ==
  /\ entry = "direct"
  /\ result.kind = "response"
  /\ Len(writes) = 4
  /\ state.intent # Null /\ state.analysis # Null
  /\ state.response # Null /\ state.visualization # Null

\* C9: process_query of the coordinator, given a query whose text is empty
\* after trimming, signals an error and invokes no stage.
C9_EmptyQueryRejected ==
  (entry = "direct" /\ pc # "start" /\ Strip(query.query_text) = <<>>) =>
    /\ calls = <<>>
    /\ pc = "coordinator_done" => result.kind = "raised"

\* C10: POST /query with an empty or blank query is answered with 400; no
\* stage is invoked and process_query of the coordinator is not entered.
C10_BlankQueryIs400 ==
  (entry \in {"api", "server"} /\ Strip(reqText) = <<>>) =>
    /\ calls = <<>>
    /\ state = NoState
    /\ Finished => http.status = 400

\* C11: POST /query answers 400 only for an empty query; when a mandatory
\* stage raised, whatever the type of its exception, the answer is 500.
C11_StageFailureIs500 ==
  (entry \in {"api", "server"} /\ Finished) =>
    /\ raisedBy \in Mandatory => http.status = 500
    /\ http.status = 400 => Strip(reqText) = <<>>

\* the two terminal states of process_query
Done == pc # "finalize" /\ result.kind = "response"
Failed == result.kind = "raised"
Terminal == Done \/ Failed

\* the positions of process_query and of its workflow, in order
Phases ==
  <<"call_coordinator", "process_intent", "retrieve_info", "analyze_info",
    "compose_response", "generate_visual", "finalize", "coordinator_done">>
PhaseOf(p) == CHOOSE i \in 1..Len(Phases) : Phases[i] = p
InCoordinator == pc \in {Phases[i] : i \in 1..Len(Phases)}

\* C12: process_query goes through INIT, INTENT, RETRIEVE, REASON, WRITE,
\* VISUALIZE in this order, skipping none unless it fails; once entered it
\* reaches DONE or FAILED in the end (every awaited stage returning or
\* raising in the end); it is not in a terminal state before, it never
\* leaves the terminal state it reached, and no stage is invoked after.
C12_Terminates ==
  /\ (pc = "call_coordinator") ~> (pc = "coordinator_done" /\ Terminal)
  /\ [](InCoordinator => (Terminal <=> pc = "coordinator_done"))
  /\ [](~(Done /\ Failed))
  /\ [][(InCoordinator /\ pc # "coordinator_done") =>
          \/ pc' = pc
          \/ pc' = Phases[PhaseOf(pc) + 1]
          \/ pc' = "coordinator_done" /\ Failed']_vars
  /\ [][Terminal => /\ result' = result
                    /\ calls' = calls
                    /\ inflight' = "none"
                    /\ state' = state]_vars

\* FAILED without any stage having raised: the answer of Write had no
\* response key, and the node that merges it raised
C12_Witness ==
  /\ entry = "direct"
  /\ pc = "coordinator_done"
  /\ Failed
  /\ raisedBy = "none"
  /\ Len(returns) = 4

\* the key each stage has to produce, and the type of its value where the
\* Response depends on it
RequiredKey ==
  [intent |-> "intent", retrieve |-> "information", reason |-> "analysis",
   write |-> "response", visualize |-> "visualization"]

\* the i-th stage returned a mapping with its key
Succeeded(i) ==
  /\ Produced(i, RequiredKey[Stages[i]])
  /\ LET v == returns[i].value.m[RequiredKey[Stages[i]]] IN
       CASE Stages[i] = "write" -> IsStr(v)
         [] Stages[i] = "visualize" -> IsDict(v)
         [] OTHER -> v # Null

AllSucceeded == \A i \in 1..Len(Stages) : Succeeded(i)

\* C13: when all five stages succeeded, process_query returns a Response
\* whose text is the answer text Write returned and whose visualization is
\* the visualization Visualize returned, and each of the five stages was
\* invoked exactly once.
C13_ResponseFromStages ==
  (Coordinated /\ AllSucceeded /\ pc \in {"coordinator_done", "api_done"}) =>
    /\ Done
    /\ Str(result.response.text) = returns[4].value.m["response"]
    /\ Map(result.response.visualization) = returns[5].value.m["visualization"]
    /\ Len(calls) = Len(Stages)
    /\ \A i \in 1..Len(Stages) : calls[i].stage = Stages[i] /\ returns[i].stage = Stages[i]

\* the answer and the image reference of a run without failure are in the
\* Response
C13_Witness ==
  /\ entry = "direct"
  /\ AllSucceeded
  /\ Done
  /\ result.response.text = "answer"
  /\ result.response.visualization["image_url"] = Str("/images/a.png")

\* C14: process_query does not mutate the UserQuery it is given: from its
\* entry to its end, whether it returns or raises, the text, the timestamp
\* and the context mapping of the query stay what they were.
C14_QueryNotMutated ==
  [][InCoordinator =>
       /\ query' = query
       /\ heap'[query.context] = heap[query.context]]_vars

\* what invocation p has when it runs alone
AloneText(p) == Join(tasks[p].query.query_text)
AloneAnswer(p) == "answer to " \o AloneText(p)

\* C15: two invocations in flight at the same time share no pipeline state:
\* the state dict and the context of each are its own and hold its own text,
\* identifier and stage outputs, and its Response is the one it would return
\* had it run alone; this also when both callers passed the same context dict.
C15_NoSharedState ==
  entry = "concurrent" =>
    \A p \in TaskIds :
      LET T == tasks[p] IN
        T.state.context # "none" =>
          /\ \A q \in TaskIds \ {p} : tasks[q].state.context # T.state.context
          /\ T.state.query = Str(AloneText(p))
          /\ objs[T.state.context]["original_query"] = Str(AloneText(p))
          /\ objs[T.state.context]["query_id"] = T.query_id
          /\ "information" \in DOMAIN objs[T.state.context] =>
                objs[T.state.context]["information"] = Str("data for " \o AloneText(p))
          /\ T.result.kind = "response" =>
                /\ T.result.response.text = AloneAnswer(p)
                /\ T.result.response.query_id = T.query_id.s
                /\ T.result.response.visualization =
                     [image_url |-> Str("image for " \o AloneAnswer(p))]

\* the identifier process_query generated: the hash of the query text, of
\* the timestamp it put into the context and of id(query)
GeneratedId ==
  HashStr(Join(query.query_text) \o "_"
          \o calls[1].input["context"].m["timestamp"].s \o "_id")

FinalState == Coordinated /\ Len(writes) = Len(Slots)

\* two constructions came out the same but for the time of creation
SameResponse(a, b) ==
  /\ a.ok = b.ok
  /\ a.ok => /\ a.response.text = b.response.text
             /\ a.response.visualization = b.response.visualization
             /\ a.response.query_id = b.response.query_id

ProducedRef(k, v) ==
  /\ IsStr(v) /\ v.s # ""
  /\ Len(returns) = Len(Stages)
  /\ IsDict(returns[5].value)
  /\ LET r == returns[5].value.m IN
       \/ k \in DOMAIN r /\ r[k] = v
       \/ /\ "visualization" \in DOMAIN r
          /\ IsDict(r["visualization"])
          /\ k \in DOMAIN r["visualization"].m
          /\ r["visualization"].m[k] = v

\* C18: the body of every 200 answer of POST /query has the keys
\* visualization_url and image_url, each of them null or a reference the
\* Visualize stage returned; a reference the stage did not produce is null,
\* not an empty string.
C18_UrlsNullOrProduced ==
  (entry \in {"api", "server"} /\ http.status = 200) =>
    \A k \in {"visualization_url", "image_url"} :
      /\ k \in DOMAIN http.body
      /\ http.body[k] = Null \/ ProducedRef(k, http.body[k])

\* C19: a process operation whose processing failed raises; it does not
\* return a mapping without the required key of its stage (information for
\* Retrieve, analysis for Reason, response for Write, visualization for
\* Visualize).
C19_FailureRaises ==
  (entry = "agent" /\ agentPc = "done" /\ failure # NoFailure) =>
    \/ outcome.kind = "raised"
    \/ /\ outcome.kind = "returned"
       /\ IsDict(outcome.value)
       /\ RequiredKey[agentKind] \in DOMAIN outcome.value.m

\* the run is over and, while no stage raised, an error was raised outside
\* the stages: where an output was merged, where an input was built or where
\* the answer was built
OutsideError ==
  /\ Finished
  /\ raisedBy = "none"
  /\ CASE Coordinated -> result.kind = "raised"
       [] entry = "script" -> returns # <<>> /\ ~IsDict(Last(returns).value)
       [] entry = "server" -> http.status = 500
       [] OTHER -> FALSE

\* a message text names one of the stages
NamesStage(parts) ==
  \E s \in StageNames : Mentions(parts, s) \/ Mentions(parts, ScriptAgent[s])

\* C20: an error raised outside every stage invocation is fatal for the
\* query (the caller gets an error, not an answer), and what the caller gets
\* names no stage.
C20_OutsideErrorIsGeneric ==
  OutsideError =>
    CASE entry = "direct" -> ~NamesStage(result.exc.msg)
      [] entry = "api" -> http.status >= 400 /\ ~NamesStage(http.detail)
      [] entry = "server" -> ~NamesStage(http.detail)
      [] entry = "script" ->
           /\ result.value # Map(pipeline_data)
           /\ "error" \in DOMAIN result.value.m
           /\ "agent" \notin DOMAIN result.value.m

\* C21: for every query that POST /query answers with 200, the
\* visualization_url of the body is not null and begins with
\* "/static/images".
C21_VisualizationUrlIsStatic ==
  (entry = "api" /\ http.status = 200) =>
    /\ IsStr(http.body.visualization_url)
    /\ StartsWith(Spelling(http.body.visualization_url.s), StaticImages)

\* the reference under which the storage service serves a file it saved
\* does not begin with "/static/images" either
C21_ServedUrlIsStatic ==
  StartsWith(GetImageUrl(ImagePath(<<"a", ".", "p", "n", "g">>)), StaticImages)

\* no stage has been invoked twice
InvokedAtMostOnce ==
  \A i, j \in 1..Len(calls) : calls[i].stage = calls[j].stage => i = j

\* C22: there is no retry: within one run every stage's process is invoked
\* at most once, and once a stage has raised no stage is invoked again for
\* that query.
C22_NoRetry ==
  /\ []InvokedAtMostOnce
  /\ [][raisedBy # "none" => (calls' = calls /\ inflight' = "none")]_vars

\* Retrieve raised in a run of the script and the run ended after its two
\* invocations
C22_Witness ==
  /\ entry = "script"
  /\ raisedBy = "retrieve"
  /\ pc = "script_done"
  /\ Len(calls) = 2

\* the input of the j-th stage has, under key, exactly the value the i-th
\* stage returned under that key
Passed(i, key, j) ==
  (Len(calls) >= j /\ Produced(i, key)) =>
    /\ key \in DOMAIN calls[j].input
    /\ calls[j].input[key] = returns[i].value.m[key]

\* C23: what the coordinator passes downstream for a stage's result is the
\* value under the stage's output key, not the enclosing mapping: the
\* analysis handed to Write is the value Reason returned under analysis, the
\* intent handed to Retrieve and Reason the value Intent returned under
\* intent.
C23_ValuePassedNotMapping ==
  Coordinated =>
    /\ Passed(3, "analysis", 4)
    /\ Passed(1, "intent", 2)
    /\ Passed(1, "intent", 3)

\* C24: GPT4WriterAgent.process never raises and returns, for every input
\* and whatever the language model answers, a mapping whose response is a
\* non-empty string.
C24_WriterAlwaysAnswers ==
  (entry = "agent" /\ agentKind = "write" /\ agentPc = "done") =>
    /\ outcome.kind = "returned"
    /\ IsDict(outcome.value)
    /\ "response" \in DOMAIN outcome.value.m
    /\ IsStr(outcome.value.m["response"])
    /\ outcome.value.m["response"].s # ""

\* C25: StableDiffusionDesignerAgent.process never raises: whenever the
\* generation of the visualization failed, it returns a mapping whose
\* visualization is null, with an error record that holds a message and a
\* timestamp.
C25_DesignerFailureIsNull ==
  (entry = "agent" /\ agentKind = "visualize" /\ agentPc = "done") =>
    /\ outcome.kind = "returned"
    /\ failure # NoFailure =>
         /\ IsDict(outcome.value)
         /\ "visualization" \in DOMAIN outcome.value.m
         /\ outcome.value.m["visualization"] = Null
         /\ "error" \in DOMAIN outcome.value.m
         /\ IsDict(outcome.value.m["error"])
         /\ {"message", "timestamp"} \subseteq DOMAIN outcome.value.m["error"].m

\* C26: a cache entry of the designer is valid exactly when it has a
\* timestamp younger than cache_duration (one hour); process returns the
\* cached visualization without generating again iff the key is valid and
\* present in the cache, and otherwise generates a visualization and stores
\* it with the current time.
C26_CacheValidity ==
  [][ /\ (designerCall.pc = "idle" /\ designerCall'.pc # "idle"
            /\ IsDict(designerCall'.input)) =>
           LET k == designerCall'.key
               valid == /\ k \in DOMAIN cache_timestamps
                        /\ now - cache_timestamps[k] < 60
               present == k \in DOMAIN visualization_cache
           IN /\ designerCall'.hit <=> (valid /\ present)
              /\ designerCall'.hit =>
                   /\ designerCall'.pc = "done"
                   /\ designerCall'.value =
                        Map([visualization |-> visualization_cache[k]])
              /\ ~designerCall'.hit =>
                   \/ designerCall'.pc = "generating"
                   \/ designerCall'.failure # NoFailure
              /\ UNCHANGED <<visualization_cache, cache_timestamps>>
      /\ (designerCall.pc = "generating" /\ designerCall'.pc = "done"
            /\ designerCall'.value.m["visualization"] # Null) =>
           LET k == designerCall.key IN
             /\ k \in DOMAIN visualization_cache'
             /\ visualization_cache'[k] = designerCall'.value.m["visualization"]
             /\ cache_timestamps'[k] = now
    ]_vars

\* an entry of the cache has outlived cache_duration and the identical
\* request is being generated again
C26_Witness ==
  /\ entry = "designer"
  /\ designerCall.pc = "generating"
  /\ designerCall.key \in DOMAIN visualization_cache
  /\ now - cache_timestamps[designerCall.key] >= 60

\* a request was answered from the cache half an hour after its entry was
\* stored
C26_HitWitness ==
  /\ entry = "designer"
  /\ designerCall.pc = "done"
  /\ designerCall.hit
  /\ now - cache_timestamps[designerCall.key] = 30

\* a result of generate_visualization that carries an image
HasImage(v) ==
  /\ IsDict(v)
  /\ "image_url" \in DOMAIN v.m
  /\ v.m["image_url"] # Null

\* C29: the visualization cache of the designer only ever holds results of
\* successful generations: no cached entry is an error-shaped result (one
\* without image), so a request whose generation failed is generated anew
\* on the next identical request.
C29_CacheHoldsSuccesses ==
  entry = "designer" =>
    \A k \in DOMAIN visualization_cache : HasImage(visualization_cache[k])

\* the entry of an endpoint is there and its age is below the endpoint's TTL
FreshEntry(endpoint) ==
  /\ CacheKey(endpoint) \in DOMAIN data_cache
  /\ now - last_update[CacheKey(endpoint)] < CacheTtl(endpoint)

NoVisualization(v) ==
  \/ v = Null
  \/ v = Map(EmptyMap)
  \/ IsDict(v) /\ "visualization" \in DOMAIN v.m /\ v.m["visualization"] = Null

\* C28: every Response that process_query returns has a visualization that
\* is a mapping, never null: when the Visualize stage returned null, an
\* empty result or a mapping whose visualization is null, process_query
\* still returns a Response, and its visualization is the empty mapping.
C28_VisualizationIsMapping ==
  (Coordinated /\ Len(returns) = Len(Stages) /\ result # NoResult
     /\ IsStr(state.response) /\ NoVisualization(returns[5].value)) =>
    /\ result.kind = "response"
    /\ result.response.visualization = EmptyMap

\* the designer returned {'visualization': None, 'error': ...} and the
\* Response came back with an empty visualization
C28_Witness ==
  /\ entry = "direct"
  /\ result.kind = "response"
  /\ Len(returns) = Len(Stages)
  /\ IsDict(returns[5].value)
  /\ "error" \in DOMAIN returns[5].value.m
  /\ result.response.visualization = EmptyMap

\* C30: save_image leaves a file at the path it generated iff it returns
\* successfully: on success the file exists, is not empty and the result is
\* "/images/<filename>"; when it raises (empty image data or a failed
\* write) no file remains at that path and every other file of the storage
\* directory is unchanged.
C30_FileIffSuccess ==
  [][ saved' # saved =>
        LET f == saved'.filename
            r == saved'.result
        IN /\ (r.kind = "returned") <=> (f \in DOMAIN files')
           /\ r.kind = "returned" =>
                /\ files'[f] # <<>>
                /\ r.value = <<"/", "i", "m", "a", "g", "e", "s", "/">> \o f
           /\ saved'.image_data = <<>> => r.kind = "raised"
           /\ r.kind = "raised" =>
                /\ f \notin DOMAIN files'
                /\ DOMAIN files' = DOMAIN files \ {f}
                /\ \A g \in DOMAIN files' : files'[g] = files[g]
    ]_vars

\* a write failed although an image had been saved before: the earlier
\* file is still there
C30_Witness ==
  /\ entry = "storage"
  /\ saved # NoResult
  /\ saved.result.kind = "raised"
  /\ saved.result.exc.type = "OSError"
  /\ saved.image_data = <<1, 2>>
  /\ files # EmptyMap

====
